---- MODULE Spec2Model ----
(***************************************************************************)
(* Model of the Raspberry Pi camera traffic sign detector                  *)
(* (src/TRAFFICSIGN/pi_camera_detector.py): construction of the detector,  *)
(* one detection cycle (capture_and_detect), the session loop              *)
(* (start_continuous_detection), persistence (_save_results_to_json),      *)
(* cleanup and the main() driver.                                          *)
(*                                                                         *)
(* Conventions.                                                            *)
(*  - Time is counted in whole seconds (ticks); `now` is time.time().      *)
(*  - Confidences and the threshold are integers in hundredths (30 = 0.3); *)
(*    the comparisons of the code are the comparisons of these integers.   *)
(*  - A Python dict is a TLA+ record whose DOMAIN is the dict's key set;   *)
(*    r.get(k, d) is Get(r, k, d).                                         *)
(*  - An Optional value is a sequence of length 0 (None) or 1.             *)
(*  - Class ids are 0-based as in the code; LABELS is a 1-based tuple.     *)
(***************************************************************************)
EXTENDS Integers, Sequences, FiniteSets, TLC

VARIABLES
    \* configuration (arguments of __init__ and start_continuous_detection)
    confidence_threshold, detection_interval, duration, save_results,
    \* environment
    PICAMERA_AVAILABLE, scene, now,
    \* detector object
    camera, running,
    \* locals of start_continuous_detection
    results, start_time, detection_count,
    \* locals of capture_and_detect
    capture_time, preprocess_time, output_data, result,
    \* outputs
    files, console,
    \* control position of the main thread
    pc,
    \* history: why the loop was left, the stage that failed in the cycle in
    \* hand, the cycles started, the first stop signal, the cycle during which
    \* the duration was reached, what went wrong at the end
    exit_reason, cycle_fault, cycles_started, stop_signal,
    expired_in_cycle, persist_error, raised_by,
    \* calls of cleanup made by another thread while the loop runs, and where
    \* that thread is in its call
    ext_cleanups, ext_pc,
    \* calls of cleanup made so far, and whether one of them raised
    cleanup_calls, cleanup_raised,
    \* calls of start_continuous_detection made so far, and the result list the
    \* call before the latest one ended with
    session_no, prev_results,
    \* history: the time at which each cycle of the session started
    cycle_starts,
    \* locals of capture_and_detect and preprocess_image_array: the size of the
    \* captured frame and the box it was cropped to
    frame, crop_box

vars == <<confidence_threshold, detection_interval, duration, save_results,
          PICAMERA_AVAILABLE, scene, now, camera, running,
          results, start_time, detection_count,
          capture_time, preprocess_time, output_data, result, files, console, pc,
          exit_reason, cycle_fault, cycles_started, stop_signal,
          expired_in_cycle, persist_error, raised_by, ext_cleanups, ext_pc,
          cleanup_calls, cleanup_raised, session_no, prev_results, cycle_starts,
          frame, crop_box>>

image == <<frame, crop_box>>
teardown == <<cleanup_calls, cleanup_raised, ext_pc>>
calls == <<session_no, prev_results>>
config == <<confidence_threshold, detection_interval, duration, save_results,
            PICAMERA_AVAILABLE, scene>>
session == <<results, start_time, detection_count>>
cycle == <<capture_time, preprocess_time, output_data, result>>
outputs == <<files, console>>

----------------------------------------------------------------------------
\* Bounds of the model

\* cap on the cycles of a session without duration, which is unbounded
MaxCycles == 3
\* the same cap for a session of a "sample" run, where every step may fail or
\* be interrupted
MaxDisturbedCycles == 1
\* length of the classifier's output vector in the model
NumClasses == 4
\* cap on the calls of cleanup made once main is over
MaxCleanups == 2
\* cap on the calls of start_continuous_detection on one detector
MaxSessions == 2
\* largest width and height of the frames of the "frames" runs, in pixels
MaxSide == 5

\* Program constants
TopK == 3
MsPerTick == 1000
\* `* 100` of lines 343 and 364
PercentScale == 100
\* round(x, 2) keeps hundredths, the format .1f keeps tenths
HundredthsPerUnit == 100
TenthsPerUnit == 10
CameraWarmUp == 2

\* Values the environment and the configuration are drawn from
ConfLevels == {10, 30, 92}
Thresholds == {10, 30, 92}
DefaultThreshold == 30
StageTimes == {0, 1}
Durations == {<<>>, <<0>>, <<1>>, <<2>>, <<3>>}
\* the durations of the "sample" runs
SampleDurations == {<<>>, <<0>>, <<1>>, <<2>>}
Intervals == {1}

Classes == 0 .. (NumClasses - 1)

LABELS == <<
    "Speed limit (20km/h)", "Speed limit (30km/h)", "Speed limit (50km/h)", "Speed limit (60km/h)",
    "Speed limit (70km/h)", "Speed limit (80km/h)", "End of speed limit (80km/h)", "Speed limit (100km/h)",
    "Speed limit (120km/h)", "No passing", "No passing veh over 3.5 tons", "Right-of-way at intersection",
    "Priority road", "Yield", "Stop", "No vehicles", "Veh > 3.5 tons prohibited", "No entry",
    "General caution", "Dangerous curve left", "Dangerous curve right", "Double curve", "Bumpy road",
    "Slippery road", "Road narrows on the right", "Road work", "Traffic signals", "Pedestrians",
    "Children crossing", "Bicycles crossing", "Beware of ice/snow", "Wild animals crossing",
    "End speed + passing limits", "Turn right ahead", "Turn left ahead", "Ahead only", "Go straight or right",
    "Go straight or left", "Keep right", "Keep left", "Roundabout mandatory", "End of no passing",
    "End no passing veh > 3.5 tons" >>

\* Label reading the table one entry too far
Label_shifted(idx) == LABELS[idx + 2]

\* self.LABELS[idx], idx 0-based
Label(idx) == LABELS[idx + 1]

camera_resolution == <<1920, 1080>>

----------------------------------------------------------------------------
\* Python helpers

\* r.get(k, d)
Get(r, k, d) == IF k \in DOMAIN r THEN r[k] ELSE d

\* truth value of an Optional[float]: None and 0.0 are falsy
Truthy(opt) == opt # <<>> /\ opt[1] # 0

\* sum(1 for r in rs if r.get('detected', False))
RECURSIVE CountDetected(_)
CountDetected(rs) ==
    IF rs = <<>> THEN 0
    ELSE (IF Get(Head(rs), "detected", FALSE) THEN 1 ELSE 0) + CountDetected(Tail(rs))

----------------------------------------------------------------------------
\* The decision of one cycle (capture_and_detect, lines 212-249)

\* float(np.max(output_data[0]))
MaxConfidence(conf) == CHOOSE m \in {conf[c] : c \in Classes} : \A c \in Classes : conf[c] <= m

\* np.argmax(output_data[0]): the first index holding the maximum
ArgMax(conf) == CHOOSE i \in Classes :
    /\ conf[i] = MaxConfidence(conf)
    /\ \A j \in Classes : conf[j] = MaxConfidence(conf) => i <= j

\* number of indices np.argsort(...)[-3:] keeps
TopCount == IF NumClasses < TopK THEN NumClasses ELSE TopK

\* np.argsort(output_data[0])[-3:][::-1]: the indices of the 3 largest entries,
\* largest first. np.argsort's default sort is not stable, so the order of
\* equal entries, and which of several equal entries make the cut, is any
\* order an ascending sort can leave them in.
TopIndexChoices(conf) ==
    { t \in [1 .. TopCount -> Classes] :
        /\ \A i, j \in 1 .. TopCount : i # j => t[i] # t[j]
        /\ \A i \in 1 .. (TopCount - 1) : conf[t[i]] >= conf[t[i + 1]]
        /\ \A c \in Classes :
              (\A i \in 1 .. TopCount : t[i] # c) => conf[c] <= conf[t[TopCount]] }

\* one entry of top_predictions / primary_detection
Detection(idx, conf) == [class_id |-> idx, label |-> Label(idx), confidence |-> conf[idx]]

\* TopPredictions without the threshold test of line 221
TopPredictions_unfiltered(top_indices, conf, threshold) ==
    [i \in 1 .. Len(top_indices) |-> Detection(top_indices[i], conf)]

\* the loop of lines 218-226 over top_indices
RECURSIVE TopPredictions(_, _, _)
TopPredictions(top_indices, conf, threshold) ==
    IF top_indices = <<>> THEN <<>>
    ELSE LET idx == Head(top_indices)
             rest == TopPredictions(Tail(top_indices), conf, threshold)
         IN IF conf[idx] > threshold THEN <<Detection(idx, conf)>> \o rest ELSE rest

\* Detected with the comparison weakened to >=
Detected_ge(conf, threshold) == MaxConfidence(conf) >= threshold

\* 'detected': confidence > self.confidence_threshold
Detected(conf, threshold) == MaxConfidence(conf) > threshold

\* PrimaryDetection without the condition of line 241
PrimaryDetection_always(conf, threshold) ==
    <<[class_id |-> ArgMax(conf), label |-> Label(ArgMax(conf)),
       confidence |-> MaxConfidence(conf)]>>

\* 'primary_detection': {...} if confidence > threshold else None
PrimaryDetection(conf, threshold) ==
    IF MaxConfidence(conf) > threshold
    THEN <<[class_id |-> ArgMax(conf), label |-> Label(ArgMax(conf)),
            confidence |-> MaxConfidence(conf)]>>
    ELSE <<>>

\* the result dict of lines 229-249
SuccessResult(conf, top_indices, threshold, t_cap, t_pre, t_inf, stamp) ==
    [ timestamp |-> stamp,
      capture_time_ms |-> t_cap * MsPerTick,
      preprocess_time_ms |-> t_pre * MsPerTick,
      inference_time_ms |-> t_inf * MsPerTick,
      total_time_ms |-> (t_cap + t_pre + t_inf) * MsPerTick,
      detected |-> Detected(conf, threshold),
      camera_resolution |-> camera_resolution,
      primary_detection |-> PrimaryDetection(conf, threshold),
      top_predictions |-> TopPredictions(top_indices, conf, threshold),
      model_info |-> [confidence_threshold |-> threshold, total_classes |-> Len(LABELS)] ]

\* ErrorResult carrying the keys of a completed cycle as well, with empty values
ErrorResult_full(stage, stamp) ==
    [ timestamp |-> stamp,
      error |-> stage \o " failed",
      capture_time_ms |-> 0,
      preprocess_time_ms |-> 0,
      inference_time_ms |-> 0,
      total_time_ms |-> 0,
      detected |-> FALSE,
      camera_resolution |-> camera_resolution,
      primary_detection |-> <<>>,
      top_predictions |-> <<>>,
      model_info |-> [confidence_threshold |-> 0, total_classes |-> Len(LABELS)] ]

\* the result dict of the except branch, lines 253-259
ErrorResult(stage, stamp) ==
    [timestamp |-> stamp, error |-> stage \o " failed", detected |-> FALSE]

\* the result dict of lines 185-190
NoCameraResult(stamp) ==
    [timestamp |-> stamp, error |-> "Camera not available", detected |-> FALSE]

----------------------------------------------------------------------------
\* The crop of preprocess_image_array (lines 149-160)

\* CropBox with the square taken from the left or top edge
CropBox_from_edge(width, height) ==
    IF width > height THEN <<0, 0, height, height>>
    ELSE IF height > width THEN <<0, 0, width, width>>
    ELSE <<0, 0, width, height>>

\* the box (left, upper, right, lower) the image is cropped to; an image that
\* is square already is not cropped and keeps its full box
CropBox(width, height) ==
    IF width > height
    THEN LET left == (width - height) \div 2 IN <<left, 0, left + height, height>>
    ELSE IF height > width
    THEN LET top == (height - width) \div 2 IN <<0, top, width, top + width>>
    ELSE <<0, 0, width, height>>

\* sizes (width, height) of the frames the camera delivers
FrameSizes(s) ==
    IF s = "frames" THEN (1 .. MaxSide) \X (1 .. MaxSide) ELSE {camera_resolution}

\* confidence vectors the classifier may return
ConfidenceVectors == [Classes -> ConfLevels]
SampleVectors == { [c \in Classes |-> 10], [c \in Classes |-> IF c = 2 THEN 92 ELSE 10] }
SignVector == [c \in Classes |-> IF c = 2 THEN 92 ELSE 10]
Outputs(s) ==
    IF s = "exhaustive" THEN ConfidenceVectors
    ELSE IF s = "sample" THEN {SignVector}
    ELSE SampleVectors

\* seconds a stage may take: the "cycles" runs let the inference take up to a
\* second, the "sample" runs a second, capture and preprocessing less than
\* one
CaptureTimes(s) == {0}
PreprocessTimes(s) == {0}
InferenceTimes(s) ==
    IF s = "cycles" THEN StageTimes ELSE IF s = "sample" THEN {1} ELSE {0}

----------------------------------------------------------------------------
\* Initial state: before main() constructs the detector

\* The runs explored: every confidence vector and threshold with a session
\* of one cycle ("exhaustive"); every duration with two sample confidence
\* vectors and two inference times ("cycles"); the durations up to two seconds
\* with a sign in every frame, in an environment that raises faults and
\* signals ("sample");
\* sessions of one cycle started again on the same detector ("restart");
\* sessions of one cycle on frames of every small width and height ("frames").
Configurations ==
    [scene : {"exhaustive"}, threshold : Thresholds, interval : {1},
     duration : {<<1>>}, save : {TRUE}]
    \cup
    [scene : {"cycles"}, threshold : {DefaultThreshold}, interval : Intervals,
     duration : Durations, save : BOOLEAN]
    \cup
    [scene : {"sample"}, threshold : {DefaultThreshold}, interval : Intervals,
     duration : SampleDurations, save : BOOLEAN]
    \cup
    [scene : {"restart"}, threshold : {DefaultThreshold}, interval : Intervals,
     duration : {<<1>>}, save : BOOLEAN]
    \cup
    [scene : {"frames"}, threshold : {DefaultThreshold}, interval : Intervals,
     duration : {<<1>>}, save : {FALSE}]

NoSignal == [kind |-> "none", at |-> "none", started |-> 0]

\* the environment of a "sample" run raises faults and signals while the
\* loop runs; the runs of every other scene are left undisturbed
Disturbed == scene = "sample"

\* the environment of a "sample" run also disturbs the construction of the
\* detector, the start and the end of the session and the release of the
\* camera
Fragile == scene = "sample"

\* a session without duration (None or 0) is followed for CycleCap cycles; a
\* session with a duration runs until line 290 ends it
CycleCap == IF Disturbed THEN MaxDisturbedCycles ELSE MaxCycles

Init ==
    /\ \E c \in Configurations :
          /\ scene = c.scene
          /\ confidence_threshold = c.threshold
          /\ detection_interval = c.interval
          /\ duration = c.duration
          /\ save_results = c.save
    /\ PICAMERA_AVAILABLE \in BOOLEAN
    /\ now = 0
    /\ camera = "None"
    /\ running = FALSE
    /\ results = <<>>
    /\ start_time = 0
    /\ detection_count = 0
    /\ capture_time = 0
    /\ preprocess_time = 0
    /\ output_data = <<>>
    /\ result = <<>>
    /\ files = <<>>
    /\ console = <<>>
    /\ pc = "new"
    /\ exit_reason = "none"
    /\ cycle_fault = "none"
    /\ cycles_started = 0
    /\ stop_signal = NoSignal
    /\ expired_in_cycle = 0
    /\ persist_error = "none"
    /\ raised_by = "none"
    /\ ext_cleanups = 0
    /\ ext_pc = "none"
    /\ cleanup_calls = 0
    /\ cleanup_raised = FALSE
    /\ session_no = 0
    /\ prev_results = <<>>
    /\ cycle_starts = <<>>
    /\ frame = <<>>
    /\ crop_box = <<>>

history == <<exit_reason, cycle_fault, cycles_started, stop_signal,
             expired_in_cycle, persist_error, raised_by, ext_cleanups>>

----------------------------------------------------------------------------
\* __init__ (lines 52-83), _load_model (85-102), _setup_camera (104-132)

\* _load_model raises: the constructor raises
LoadModelFails ==
    /\ pc = "new"
    /\ pc' = "load_failed"
    /\ UNCHANGED <<config, image, teardown, calls, cycle_starts, now, camera, running, session, cycle, outputs, history>>

\* picamera2 could not be imported: the camera stays None, the detector is built
ConstructWithoutDriver ==
    /\ pc = "new"
    /\ ~PICAMERA_AVAILABLE
    /\ pc' = "idle"
    /\ UNCHANGED <<config, image, teardown, calls, cycle_starts, now, camera, running, session, cycle, outputs, history>>

\* line 108: self.camera = Picamera2()
CameraCreate ==
    /\ pc = "new"
    /\ PICAMERA_AVAILABLE
    /\ camera' = "created"
    /\ pc' = "configure"
    /\ UNCHANGED <<config, image, teardown, calls, cycle_starts, now, running, session, cycle, outputs, history>>

\* lines 111-121: the camera is configured and started
CameraStart ==
    /\ pc = "configure"
    /\ camera' = "started"
    /\ pc' = "warmup"
    /\ UNCHANGED <<config, image, teardown, calls, cycle_starts, now, running, session, cycle, outputs, history>>

\* lines 124-127: the warm-up sleep is over, _setup_camera and the constructor
\* return
ConstructWithCamera ==
    /\ pc = "warmup"
    /\ now' = now + CameraWarmUp
    /\ pc' = "idle"
    /\ UNCHANGED <<config, image, teardown, calls, cycle_starts, camera, running, session, cycle, outputs, history>>

\* lines 107-121 left by a KeyboardInterrupt: the except Exception of line 129
\* does not catch it, self.camera keeps what line 108 has stored by then (None
\* before it, the camera not yet started after it), the constructor raises and
\* `detector` stays unbound in main
SetupInterrupted ==
    /\ pc \in {"new", "configure"}
    /\ PICAMERA_AVAILABLE
    /\ Fragile
    /\ pc' = "setup_interrupted"
    /\ UNCHANGED <<config, image, teardown, calls, cycle_starts, now, camera, running, session, cycle, outputs, history>>

\* lines 124-127 left by a KeyboardInterrupt after waited seconds of the
\* warm-up sleep: self.camera keeps the started camera and the constructor
\* raises
WarmUpInterrupted ==
    /\ pc = "warmup"
    /\ Fragile
    /\ \E waited \in 0 .. CameraWarmUp : now' = now + waited
    /\ pc' = "setup_interrupted"
    /\ UNCHANGED <<config, image, teardown, calls, cycle_starts, camera, running, session, cycle, outputs, history>>

\* lines 108-121 raise an Exception: line 131 sets self.camera = None, and
\* line 132 re-raises out of the constructor
SetupCameraFails ==
    /\ pc \in {"new", "configure"}
    /\ PICAMERA_AVAILABLE
    /\ camera' = "None"
    /\ pc' = "setup_failed"
    /\ UNCHANGED <<config, image, teardown, calls, cycle_starts, now, running, session, cycle, outputs, history>>

----------------------------------------------------------------------------
\* start_continuous_detection (lines 261-343)

LoopPcs == {"loop_top", "capture", "preprocess", "inference", "append", "count",
            "print", "sleep"}
CyclePcs == {"capture", "preprocess", "inference"}

\* where the main thread is when a stop signal arrives
Phase(p) == IF p = "sleep" THEN "wait" ELSE IF p \in CyclePcs THEN "cycle" ELSE "loop"

\* Expired with the coming interval wait counted as already elapsed
Expired_early(t) ==
    Truthy(duration) /\ (t - start_time) + detection_interval >= duration[1]

\* line 290: duration and (time.time() - start_time) >= duration, at time t
Expired(t) == Truthy(duration) /\ (t - start_time) >= duration[1]

\* StartSession without the camera check of lines 269-271
StartSession_unguarded ==
    /\ pc = "idle"
    /\ running' = TRUE
    /\ results' = <<>>
    /\ start_time' = now
    /\ detection_count' = 0
    /\ pc' = "loop_top"
    /\ session_no' = session_no + 1
    /\ prev_results' = results
    /\ cycle_starts' = <<>>
    /\ UNCHANGED <<config, image, teardown, now, camera, cycle, outputs, history>>

\* StartSession without the resets of lines 274 and 276: the result list and
\* the counter live on from the previous call
StartSession_keeps_results ==
    /\ pc = "idle"
    /\ IF camera = "None"
       THEN /\ pc' = "returned"
            /\ exit_reason' = "no_camera"
            /\ UNCHANGED <<running, session, cycle_starts>>
       ELSE /\ running' = TRUE
            /\ start_time' = now
            /\ pc' = "loop_top"
            /\ cycle_starts' = <<>>
            /\ UNCHANGED <<results, detection_count, exit_reason>>
    /\ session_no' = session_no + 1
    /\ prev_results' = results
    /\ UNCHANGED <<config, image, teardown, now, camera, cycle, outputs, cycle_fault, cycles_started,
                   stop_signal, expired_in_cycle, persist_error, raised_by, ext_cleanups>>

\* lines 269-276: refuse to run without a camera, else enter the loop
StartSession ==
    /\ pc = "idle"
    /\ IF camera = "None"
       THEN /\ pc' = "returned"
            /\ exit_reason' = "no_camera"
            /\ UNCHANGED <<running, session, cycle_starts>>
       ELSE /\ running' = TRUE
            /\ results' = <<>>
            /\ start_time' = now
            /\ detection_count' = 0
            /\ pc' = "loop_top"
            /\ cycle_starts' = <<>>
            /\ UNCHANGED exit_reason
    /\ session_no' = session_no + 1
    /\ prev_results' = results
    /\ UNCHANGED <<config, image, teardown, now, camera, cycle, outputs, cycle_fault, cycles_started,
                   stop_signal, expired_in_cycle, persist_error, raised_by, ext_cleanups>>

\* lines 269-285 left by a KeyboardInterrupt: they come before the try of line
\* 287, so that neither its handlers nor its finally block run. Without a
\* camera the interrupt arrives in lines 269-270; with one, before line 273
\* has stored the flag or after it, and the flag stays as it is then
StartInterrupted ==
    /\ pc = "idle"
    /\ Fragile
    /\ \E flag \in (IF camera = "None" THEN {running} ELSE {running, TRUE}) :
          running' = flag
    /\ pc' = "raised"
    /\ raised_by' = "interrupt"
    /\ exit_reason' = "start_interrupted"
    /\ session_no' = session_no + 1
    /\ prev_results' = results
    /\ UNCHANGED <<config, image, teardown, cycle_starts, now, camera, results, start_time, detection_count,
                   cycle, outputs, cycle_fault, cycles_started, stop_signal,
                   expired_in_cycle, persist_error, ext_cleanups>>

\* LoopTop with `while True` in place of `while self.running`
LoopTop_ignores_flag ==
    /\ pc = "loop_top"
    /\ IF Truthy(duration) /\ (now - start_time) >= duration[1]
       THEN /\ pc' = "finally"
            /\ exit_reason' = "duration"
            /\ UNCHANGED <<cycles_started, cycle_fault, output_data, cycle_starts>>
       ELSE /\ Truthy(duration) \/ detection_count < CycleCap
            /\ pc' = "capture"
            /\ cycles_started' = cycles_started + 1
            /\ cycle_fault' = "none"
            /\ output_data' = <<>>
            /\ cycle_starts' = Append(cycle_starts, now)
            /\ UNCHANGED exit_reason
    /\ UNCHANGED <<config, image, teardown, calls, now, camera, running, session, capture_time, preprocess_time,
                   result, outputs, stop_signal, expired_in_cycle, persist_error,
                   raised_by, ext_cleanups>>

\* lines 288-294: the while condition, the duration check, the call of the cycle
LoopTop ==
    /\ pc = "loop_top"
    /\ IF ~running
       THEN /\ pc' = "finally"
            /\ exit_reason' = "stopped"
            /\ UNCHANGED <<cycles_started, cycle_fault, output_data, cycle_starts>>
       ELSE IF Expired(now)
       THEN /\ pc' = "finally"
            /\ exit_reason' = "duration"
            /\ UNCHANGED <<cycles_started, cycle_fault, output_data, cycle_starts>>
       ELSE /\ Truthy(duration) \/ detection_count < CycleCap
            /\ pc' = "capture"
            /\ cycles_started' = cycles_started + 1
            /\ cycle_fault' = "none"
            /\ output_data' = <<>>
            /\ cycle_starts' = Append(cycle_starts, now)
            /\ UNCHANGED exit_reason
    /\ UNCHANGED <<config, image, teardown, calls, now, camera, running, session, capture_time, preprocess_time,
                   result, outputs,
                   stop_signal, expired_in_cycle, persist_error, raised_by, ext_cleanups>>

\* the largest number of a set of times
SetMax(times) == CHOOSE t \in times : \A u \in times : u <= t

\* the duration is reached while cycle number cycles_started is in progress
NoteExpiry(t) ==
    expired_in_cycle' =
        IF expired_in_cycle = 0 /\ Expired(t) THEN cycles_started ELSE expired_in_cycle

\* the time a stage may have taken when it raises: none when the first call
\* of the stage raises, the time of the stage when a later one does (line 210
\* raises after invoke() of line 206 has returned)
FaultTimes(stage) ==
    {0} \cup (CASE stage = "capture" -> CaptureTimes(scene)
               [] stage = "preprocess" -> PreprocessTimes(scene)
               [] OTHER -> InferenceTimes(scene))

\* StageFault without the try/except of capture_and_detect: the exception
\* reaches the loop's handler and ends the loop
StageFault_propagates(stage) ==
    /\ Disturbed
    /\ \E dt \in FaultTimes(stage) :
          /\ now' = now + dt
          /\ NoteExpiry(now + dt)
    /\ cycle_fault' = stage
    /\ pc' = "finally"
    /\ UNCHANGED <<config, image, teardown, calls, cycle_starts, camera, running, session, cycle, outputs, exit_reason,
                   cycles_started, stop_signal, persist_error,
                   raised_by, ext_cleanups>>

\* StageFault with the loop left after the failed cycle: the error result is
\* built, but the loop goes to its finally block instead of appending it
StageFault_ends_session(stage) ==
    /\ Disturbed
    /\ \E dt \in FaultTimes(stage) :
          /\ now' = now + dt
          /\ NoteExpiry(now + dt)
          /\ result' = <<ErrorResult(stage, now + dt)>>
    /\ cycle_fault' = stage
    /\ pc' = "finally"
    /\ UNCHANGED <<config, image, teardown, calls, cycle_starts, camera, running, session, capture_time, preprocess_time,
                   output_data, outputs, exit_reason, cycles_started, stop_signal,
                   persist_error, raised_by, ext_cleanups>>

\* lines 253-259: an exception of a stage is caught inside capture_and_detect
\* and becomes the cycle's result, stamped with the time of line 256: the time
\* the stage took before it raised has passed
StageFault(stage) ==
    /\ Disturbed
    /\ \E dt \in FaultTimes(stage) :
          /\ now' = now + dt
          /\ NoteExpiry(now + dt)
          /\ result' = <<ErrorResult(stage, now + dt)>>
    /\ cycle_fault' = stage
    /\ pc' = "append"
    /\ UNCHANGED <<config, image, teardown, calls, cycle_starts, camera, running, session, capture_time, preprocess_time,
                   output_data, outputs, exit_reason, cycles_started, stop_signal,
                   persist_error, raised_by, ext_cleanups>>

\* lines 185-196: the camera check and the capture
Capture ==
    /\ pc = "capture"
    /\ IF camera = "None"
       THEN /\ result' = <<NoCameraResult(now)>>
            /\ pc' = "append"
            /\ UNCHANGED <<now, capture_time, cycle_fault, expired_in_cycle, image>>
       ELSE \/ /\ camera = "started"
               /\ \E dt \in CaptureTimes(scene), size \in FrameSizes(scene) :
                     /\ capture_time' = dt
                     /\ now' = now + dt
                     /\ NoteExpiry(now + dt)
                     /\ frame' = size
               /\ pc' = "preprocess"
               /\ UNCHANGED <<result, cycle_fault, crop_box>>
            \/ StageFault("capture")
    /\ UNCHANGED <<config, teardown, calls, cycle_starts, camera, running, session, preprocess_time, output_data,
                   outputs, exit_reason, cycles_started, stop_signal, persist_error, raised_by,
                   ext_cleanups>>

\* lines 198-201
Preprocess ==
    /\ pc = "preprocess"
    /\ \/ /\ \E dt \in PreprocessTimes(scene) :
                /\ preprocess_time' = dt
                /\ now' = now + dt
                /\ NoteExpiry(now + dt)
          /\ crop_box' = CropBox(frame[1], frame[2])
          /\ pc' = "inference"
          /\ UNCHANGED <<result, cycle_fault, frame>>
       \/ StageFault("preprocess")
    /\ UNCHANGED <<config, teardown, calls, cycle_starts, camera, running, session, capture_time, output_data,
                   outputs, exit_reason, cycles_started, stop_signal, persist_error, raised_by,
                   ext_cleanups>>

\* lines 203-251: inference, decision and the result dict
Inference ==
    /\ pc = "inference"
    /\ \/ /\ \E dt \in InferenceTimes(scene), conf \in Outputs(scene) :
             \E top_indices \in TopIndexChoices(conf) :
                /\ now' = now + dt
                /\ NoteExpiry(now + dt)
                /\ output_data' = <<conf>>
                /\ result' = <<SuccessResult(conf, top_indices, confidence_threshold,
                                             capture_time, preprocess_time, dt, now + dt)>>
          /\ pc' = "append"
          /\ UNCHANGED cycle_fault
       \/ StageFault("inference")
    /\ UNCHANGED <<config, image, teardown, calls, cycle_starts, camera, running, session, capture_time, preprocess_time,
                   outputs, exit_reason, cycles_started, stop_signal, persist_error,
                   raised_by, ext_cleanups>>

\* AppendResult with a duration check before the append: an expired session
\* drops the result of the cycle that just finished
AppendResult_drops_expired ==
    /\ pc = "append"
    /\ IF Expired(now)
       THEN /\ pc' = "finally"
            /\ exit_reason' = "duration"
            /\ UNCHANGED results
       ELSE /\ results' = Append(results, result[1])
            /\ pc' = "count"
            /\ UNCHANGED exit_reason
    /\ UNCHANGED <<config, image, teardown, calls, cycle_starts, now, camera, running, start_time, detection_count, cycle,
                   outputs, cycle_fault, cycles_started, stop_signal, expired_in_cycle,
                   persist_error, raised_by, ext_cleanups>>

\* line 295
AppendResult ==
    /\ pc = "append"
    /\ results' = Append(results, result[1])
    /\ pc' = "count"
    /\ UNCHANGED <<config, image, teardown, calls, cycle_starts, now, camera, running, start_time, detection_count, cycle,
                   outputs, history>>

\* line 296
CountResult ==
    /\ pc = "count"
    /\ detection_count' = detection_count + 1
    /\ pc' = "print"
    /\ UNCHANGED <<config, image, teardown, calls, cycle_starts, now, camera, running, results, start_time, cycle,
                   outputs, history>>

\* lines 298-313: the progress line is written
PrintProgress ==
    /\ pc = "print"
    /\ pc' = "sleep"
    /\ UNCHANGED <<config, image, teardown, calls, cycle_starts, now, camera, running, session, cycle, outputs, history>>

\* lines 298-313 and 320-321: writing the progress line raises (closed or
\* non-UTF-8 console); the loop's except Exception ends the loop
PrintFault ==
    /\ pc = "print"
    /\ Disturbed
    /\ pc' = "finally"
    /\ exit_reason' = "fault"
    /\ UNCHANGED <<config, image, teardown, calls, cycle_starts, now, camera, running, session, cycle, outputs, cycle_fault,
                   cycles_started, stop_signal, expired_in_cycle, persist_error,
                   raised_by, ext_cleanups>>

\* Sleep waiting only for what is left of the interval since the cycle started
Sleep_until_next_start ==
    /\ pc = "sleep"
    /\ now' = cycle_starts[Len(cycle_starts)] + detection_interval
    /\ pc' = "loop_top"
    /\ UNCHANGED <<config, image, teardown, calls, cycle_starts, camera, running, session, cycle, outputs, history>>

\* line 316: time.sleep(self.detection_interval)
Sleep ==
    /\ pc = "sleep"
    /\ now' = now + detection_interval
    /\ pc' = "loop_top"
    /\ UNCHANGED <<config, image, teardown, calls, cycle_starts, camera, running, session, cycle, outputs, history>>

\* the longest a call made at position p can block
Blocking(p) ==
    CASE p = "capture" -> SetMax(CaptureTimes(scene))
      [] p = "preprocess" -> SetMax(PreprocessTimes(scene))
      [] p = "inference" -> SetMax(InferenceTimes(scene))
      [] p = "sleep" -> detection_interval
      [] OTHER -> 0

\* the time that may have passed at position p when a KeyboardInterrupt ends
\* the call in progress there
InterruptTimes(p) == 0 .. Blocking(p)

\* Interrupt with capture_and_detect catching the KeyboardInterrupt as it
\* catches an Exception: the cycle in progress is recorded before the loop ends
Interrupt_records_cycle ==
    /\ pc \in LoopPcs
    /\ Disturbed
    /\ pc' = "finally"
    /\ exit_reason' = "interrupt"
    /\ \E waited \in InterruptTimes(pc) :
          /\ now' = now + waited
          /\ IF pc \in CyclePcs THEN NoteExpiry(now + waited) ELSE UNCHANGED expired_in_cycle
          /\ results' = IF pc \in CyclePcs
                        THEN Append(results, ErrorResult("interrupted", now + waited))
                        ELSE results
    /\ stop_signal' = IF stop_signal.kind = "none"
                      THEN [kind |-> "interrupt", at |-> Phase(pc), started |-> cycles_started]
                      ELSE stop_signal
    /\ UNCHANGED <<config, image, teardown, calls, cycle_starts, camera, running, start_time,
                   detection_count, cycle, outputs, cycle_fault,
                   cycles_started, persist_error, raised_by, ext_cleanups>>

\* lines 318-319: KeyboardInterrupt, raised wherever the main thread is inside
\* the try block; capture_and_detect's except Exception does not catch it. The
\* interrupt ends the call in progress, a blocking one (capture_array, invoke,
\* time.sleep) after any part of its time
Interrupt ==
    /\ pc \in LoopPcs
    /\ Disturbed
    /\ pc' = "finally"
    /\ exit_reason' = "interrupt"
    /\ \E waited \in InterruptTimes(pc) :
          /\ now' = now + waited
          /\ IF pc \in CyclePcs THEN NoteExpiry(now + waited) ELSE UNCHANGED expired_in_cycle
    /\ stop_signal' = IF stop_signal.kind = "none"
                      THEN [kind |-> "interrupt", at |-> Phase(pc), started |-> cycles_started]
                      ELSE stop_signal
    /\ UNCHANGED <<config, image, teardown, calls, cycle_starts, camera, running, session, cycle, outputs, cycle_fault,
                   cycles_started, persist_error, raised_by, ext_cleanups>>

\* what lines 382-387 come to in the thread that calls cleanup. A
\* KeyboardInterrupt, which reaches the main thread only, may leave the call
\* before line 384 has cleared the flag. Without a camera object nothing more
\* is called. Else stop() returns, raises an Exception, or is left by a
\* KeyboardInterrupt. A camera that is no longer open may refuse in any run, an
\* open one fails only in a fragile run.
StopOutcomes(thread) ==
    (IF Fragile /\ thread = "main" THEN {"entry_interrupted"} ELSE {})
    \cup (IF camera = "None" THEN {"no_camera"}
          ELSE {"stopped"}
               \cup (IF Fragile \/ camera # "started" THEN {"stop_raises"} ELSE {})
               \cup (IF Fragile /\ thread = "main" THEN {"stop_interrupted"} ELSE {}))

\* what lines 388-391 come to once stop() has returned: close() returns,
\* raises an Exception, or is left by a KeyboardInterrupt; or the
\* KeyboardInterrupt arrives after close() has returned, in line 389
CloseOutcomes(thread) ==
    {"closed"}
    \cup (IF Fragile \/ camera # "stopped" THEN {"close_raises"} ELSE {})
    \cup (IF Fragile /\ thread = "main"
          THEN {"close_interrupted", "log_interrupted"} ELSE {})

\* the camera after stop() came to outcome
Stopped(outcome) ==
    IF outcome = "stopped" /\ camera = "started" THEN "stopped" ELSE camera

\* the camera after close() came to outcome
Released(outcome) ==
    IF outcome \in {"closed", "log_interrupted"} THEN "closed" ELSE camera

\* a KeyboardInterrupt left the call of cleanup
Interrupted(outcome) ==
    outcome \in {"entry_interrupted", "stop_interrupted", "close_interrupted",
                 "log_interrupted"}

\* cleanup called in the main thread, lines 382-387: the flag is cleared and
\* the camera stopped; self.camera keeps referring to the camera object; an
\* Exception of stop() is caught and logged and close() is skipped, a
\* KeyboardInterrupt leaves the call. The call goes on to close() at `next`
\* and is over at `over`.
Cleanup(next, over) ==
    /\ cleanup_calls' = cleanup_calls + 1
    /\ \E outcome \in StopOutcomes("main") :
          /\ running' = IF outcome = "entry_interrupted" THEN running ELSE FALSE
          /\ camera' = Stopped(outcome)
          /\ cleanup_raised' = (cleanup_raised \/ Interrupted(outcome))
          /\ pc' = IF outcome = "stopped" THEN next ELSE over
    /\ UNCHANGED ext_pc

\* cleanup called from another thread while the loop runs: line 384 clears the
\* flag; stop() and close() are still to come
ExternalCleanup ==
    /\ pc \in LoopPcs
    /\ Disturbed
    /\ ext_cleanups = 0
    /\ running' = FALSE
    /\ cleanup_calls' = cleanup_calls + 1
    /\ ext_cleanups' = 1
    /\ ext_pc' = "stop"
    /\ stop_signal' = IF stop_signal.kind = "none"
                      THEN [kind |-> "cleanup", at |-> Phase(pc), started |-> cycles_started]
                      ELSE stop_signal
    /\ UNCHANGED <<config, image, calls, cycle_starts, now, camera, session, cycle, outputs, pc, exit_reason,
                   cycle_fault, cycles_started, expired_in_cycle, persist_error, raised_by,
                   cleanup_raised>>

\* lines 385-387 in the other thread: stop() returns or raises, while the main
\* thread is wherever it has got to
ExternalStop ==
    /\ ext_pc = "stop"
    /\ \E outcome \in StopOutcomes("other") :
          /\ camera' = Stopped(outcome)
          /\ ext_pc' = IF outcome = "stopped" THEN "close" ELSE "over"
    /\ UNCHANGED <<config, image, calls, cycle_starts, now, running, session, cycle, outputs, pc, history,
                   cleanup_calls, cleanup_raised>>

\* lines 388-391 in the other thread: close() returns or raises
ExternalRelease ==
    /\ ext_pc = "close"
    /\ ext_pc' = "over"
    /\ \E outcome \in CloseOutcomes("other") : camera' = Released(outcome)
    /\ UNCHANGED <<config, image, calls, cycle_starts, now, running, session, cycle, outputs, pc, history,
                   cleanup_calls, cleanup_raised>>

\* Python floats are IEEE 754 doubles: 53 significant bits, every division and
\* product rounded to the nearest double, an exact half going to the even
\* neighbour. The rounding steps are followed on remainders: the double of
\* a / b is m * 2^k with m = (a * 2^j) \div b of 53 bits, rounded up or not by the
\* remainder, and only the remainder and the lowest bits of m decide where the
\* rounded product falls.
MantissaBits == 53

RECURSIVE Pow2(_)
Pow2(k) == IF k = 0 THEN 1 ELSE 2 * Pow2(k - 1)

\* the L with 2^L <= c < 2^(L+1)
RECURSIVE FloorLog2(_)
FloorLog2(c) == IF c < 2 THEN 0 ELSE 1 + FloorLog2(c \div 2)

\* a / b with one side doubled until d <= n < 2 * d: <<n, d>>
RECURSIVE Normalise(_, _)
Normalise(n, d) ==
    IF n >= 2 * d THEN Normalise(n, 2 * d)
    ELSE IF n < d THEN Normalise(2 * n, d)
    ELSE <<n, d>>

\* (x * 2^k) % modulus, four doublings at a time
RECURSIVE ShiftMod(_, _, _)
ShiftMod(x, modulus, k) ==
    IF k <= 4 THEN (x * Pow2(k)) % modulus
    ELSE ShiftMod((x * 16) % modulus, modulus, k - 4)

Sign(v) == IF v < 0 THEN -1 ELSE IF v > 0 THEN 1 ELSE 0

\* the side on which the double (a / b) * c falls of the exact c * a / b: -1
\* below, 0 equal, 1 above. mantissa_low holds the lowest bits of the 53-bit
\* quotient, up whether the division rounds up, drop the number of bits the
\* product loses, adjust what its rounding adds, in units of the last bit kept
\* by the division.
FloatSide(a, b, c) ==
    LET nd == Normalise(a, b)
        n == nd[1]
        d == nd[2]
        width == FloorLog2(c)
        modulus == Pow2(width + 2) * d
        remainder == ShiftMod(n % modulus, modulus, MantissaBits - 1)
        rho == remainder % d
        mantissa_low == remainder \div d
        up == IF 2 * rho > d \/ (2 * rho = d /\ mantissa_low % 2 = 1) THEN 1 ELSE 0
        excess == c * n - Pow2(width + 1) * d
        drop == IF c = Pow2(width) THEN width
                ELSE IF excess > 0 \/ (excess = 0 /\ up = 1) THEN width + 1
                ELSE width
        product_low == (c * (mantissa_low + up)) % Pow2(drop + 1)
        low == product_low % Pow2(drop)
        adjust == IF low = 0 THEN 0
                  ELSE IF 2 * low < Pow2(drop) THEN 0 - low
                  ELSE IF 2 * low > Pow2(drop) THEN Pow2(drop) - low
                  ELSE IF product_low \div Pow2(drop) = 0 THEN 0 - low
                  ELSE Pow2(drop) - low
    IN Sign(d * adjust + c * (d * up - rho))

\* round((a / b) * scale, digits) in steps of 1 / units: the nearest step of the
\* double, the even one when the double is exactly half way. The double is
\* within 2^-50 of the exact quotient, so that it decides the step only when
\* the exact quotient is half way.
RoundFloat(a, b, scale, units) ==
    LET q == (a * scale * units) \div b
        r == (a * scale * units) % b
    IN IF 2 * r < b THEN q
       ELSE IF 2 * r > b THEN q + 1
       ELSE LET side == FloatSide(a, b, scale)
            IN IF side < 0 THEN q ELSE IF side > 0 THEN q + 1
               ELSE IF q % 2 = 0 THEN q ELSE q + 1

\* SuccessRate with the quotient truncated instead of rounded
SuccessRate_truncated(successful, total) ==
    IF total > 0 THEN (successful * PercentScale * HundredthsPerUnit) \div total ELSE 0

\* line 364: round(successful / total * 100, 2) if total > 0 else 0, in
\* hundredths of a percent
SuccessRate(successful, total) ==
    IF total > 0
    THEN RoundFloat(successful, total, PercentScale, HundredthsPerUnit)
    ELSE 0

\* line 343: f"{successful / count * 100:.1f}%" if count > 0 else "0%", in
\* tenths of a percent
ConsoleRate(successful, count) ==
    IF count > 0
    THEN RoundFloat(successful, count, PercentScale, TenthsPerUnit)
    ELSE 0

\* [r.get(key, 0) for r in rs if key in r], lines 354-356
RECURSIVE TimesOf(_, _)
TimesOf(rs, key) ==
    IF rs = <<>> THEN <<>>
    ELSE (IF key \in DOMAIN Head(rs) THEN <<Get(Head(rs), key, 0)>> ELSE <<>>)
            \o TimesOf(Tail(rs), key)

\* the sum np.mean divides
RECURSIVE SumSeq(_)
SumSeq(ts) == IF ts = <<>> THEN 0 ELSE Head(ts) + SumSeq(Tail(ts))

\* AverageTime dividing by the number of all cycles, those without the timing
\* included
AverageTime_over_all(rs, key) ==
    IF rs # <<>>
    THEN RoundFloat(SumSeq(TimesOf(rs, key)), Len(rs), HundredthsPerUnit, 1)
    ELSE 0

\* lines 365-367: round(np.mean(times), 2) if times else 0, in hundredths of a
\* millisecond. np.mean is the double sum / n; rounding a numpy double to 2
\* decimals multiplies it by 100 and rounds the product to the nearest integer
AverageTime(rs, key) ==
    IF TimesOf(rs, key) # <<>>
    THEN RoundFloat(SumSeq(TimesOf(rs, key)), Len(TimesOf(rs, key)), HundredthsPerUnit, 1)
    ELSE 0

\* _save_results_to_json, lines 349-373: the summary and the file's content
OutputData(rs) ==
    [ detection_summary |->
        [ total_detections |-> Len(rs),
          successful_detections |-> CountDetected(rs),
          failed_detections |-> Len(rs) - CountDetected(rs),
          success_rate |-> SuccessRate(CountDetected(rs), Len(rs)),
          average_capture_time_ms |-> AverageTime(rs, "capture_time_ms"),
          average_inference_time_ms |-> AverageTime(rs, "inference_time_ms"),
          average_total_time_ms |-> AverageTime(rs, "total_time_ms") ],
      detections |-> rs ]

\* lines 336-343: the console summary, one entry for each of the five prints;
\* elapsed is time.time() - start_time in seconds, printed in tenths
ConsoleSummary(rs, count, elapsed) ==
    [ title |-> "Detection Summary",
      total_time |-> elapsed * TenthsPerUnit,
      total_detections |-> count,
      successful_detections |-> CountDetected(rs),
      success_rate |-> ConsoleRate(CountDetected(rs), count) ]

\* the entries of the summary in the order lines 339-343 print them
SummaryLines ==
    <<"title", "total_time", "total_detections", "successful_detections", "success_rate">>

\* what is on the console once the first `lines` prints of the summary are done
Printed(summary, lines) ==
    [k \in {SummaryLines[i] : i \in 1 .. lines} |-> summary[k]]

\* what persisting can come to (lines 326-334 and 345-380): nothing to do;
\* os.makedirs, called outside any try, raises or is left by a
\* KeyboardInterrupt; open() raises inside _save_results_to_json's try and is
\* logged, no file being made; the file is written; the write raises after
\* open() made the file and is logged, the file being left cut short; a
\* KeyboardInterrupt, which the except Exception of line 379 does not catch,
\* leaves json.dump with the file cut short
PersistOutcomes ==
    IF save_results /\ results # <<>>
    THEN IF Fragile
         THEN {"makedirs_raises", "makedirs_interrupted", "open_fails", "written",
               "write_fails", "write_interrupted"}
         ELSE {"written"}
    ELSE {"skipped"}

\* what the prints of lines 339-343 can come to: all five are done; or, `lines`
\* of them being done, the next raises (closed console) or is left by a
\* KeyboardInterrupt
SummaryOutcomes ==
    {[lines |-> Len(SummaryLines), left_by |-> "none"]}
    \cup (IF Fragile
          THEN [lines : 0 .. (Len(SummaryLines) - 1), left_by : {"summary", "interrupt"}]
          ELSE {})

\* whether a KeyboardInterrupt raised inside the handler of line 319 or 321 is
\* pending when the finally block starts: the block runs and the interrupt
\* then leaves the call
PendingInterrupt ==
    IF Fragile /\ exit_reason \in {"interrupt", "fault"} THEN BOOLEAN ELSE {FALSE}

\* the file a write left when it failed or was interrupted: the beginning of
\* the JSON text, which no reader can parse
TruncatedFile == [truncated |-> TRUE]

\* what leaves the finally block, "none" when the call returns; the prints
\* are reached only when persisting left nothing, and print as far as they get
LeftBy(outcome, summary, pending) ==
    CASE outcome = "makedirs_raises" -> "makedirs"
      [] outcome \in {"makedirs_interrupted", "write_interrupted"} -> "interrupt"
      [] summary.left_by # "none" -> summary.left_by
      [] pending -> "interrupt"
      [] OTHER -> "none"

\* Finally without line 323: the flag is left as the loop left it
Finally_keeps_flag ==
    /\ pc = "finally"
    /\ \/ /\ UNCHANGED running
          /\ \E outcome \in PersistOutcomes, summary \in SummaryOutcomes, pending \in PendingInterrupt :
                /\ files' = CASE outcome = "written" -> Append(files, OutputData(results))
                              [] outcome \in {"write_fails", "write_interrupted"}
                                   -> Append(files, TruncatedFile)
                              [] OTHER -> files
                /\ persist_error' = CASE outcome = "makedirs_raises" -> "makedirs"
                                      [] outcome \in {"open_fails", "write_fails"} -> "write"
                                      [] outcome \in {"makedirs_interrupted", "write_interrupted"}
                                           -> "interrupt"
                                      [] OTHER -> "none"
                /\ console' =
                      IF LeftBy(outcome, [summary EXCEPT !.left_by = "none"], FALSE) = "none"
                         /\ summary.lines > 0
                      THEN Append(console,
                                  Printed(ConsoleSummary(results, detection_count,
                                                         now - start_time),
                                          summary.lines))
                      ELSE console
                /\ IF LeftBy(outcome, summary, pending) # "none"
                   THEN /\ raised_by' = LeftBy(outcome, summary, pending)
                        /\ pc' = "raised"
                   ELSE /\ pc' = "returned"
                        /\ UNCHANGED raised_by
       \/ /\ Fragile
          /\ pc' = "raised"
          /\ raised_by' = "interrupt"
          /\ UNCHANGED <<running, files, console, persist_error>>
    /\ UNCHANGED <<config, image, teardown, calls, cycle_starts, now, camera, session, cycle, exit_reason, cycle_fault,
                   cycles_started, stop_signal, expired_in_cycle, ext_cleanups>>

\* the finally block, lines 322-343: the flag is cleared, the session is
\* persisted, the console summary is written; what os.makedirs, an interrupted
\* write or the prints raise leaves start_continuous_detection, and so does an
\* interrupt pending from the handlers. The second case is a KeyboardInterrupt
\* that arrives before line 323.
Finally ==
    /\ pc = "finally"
    /\ \/ /\ running' = FALSE
          /\ \E outcome \in PersistOutcomes, summary \in SummaryOutcomes, pending \in PendingInterrupt :
                /\ files' = CASE outcome = "written" -> Append(files, OutputData(results))
                              [] outcome \in {"write_fails", "write_interrupted"}
                                   -> Append(files, TruncatedFile)
                              [] OTHER -> files
                /\ persist_error' = CASE outcome = "makedirs_raises" -> "makedirs"
                                      [] outcome \in {"open_fails", "write_fails"} -> "write"
                                      [] outcome \in {"makedirs_interrupted", "write_interrupted"}
                                           -> "interrupt"
                                      [] OTHER -> "none"
                /\ console' =
                      IF LeftBy(outcome, [summary EXCEPT !.left_by = "none"], FALSE) = "none"
                         /\ summary.lines > 0
                      THEN Append(console,
                                  Printed(ConsoleSummary(results, detection_count,
                                                         now - start_time),
                                          summary.lines))
                      ELSE console
                /\ IF LeftBy(outcome, summary, pending) # "none"
                   THEN /\ raised_by' = LeftBy(outcome, summary, pending)
                        /\ pc' = "raised"
                   ELSE /\ pc' = "returned"
                        /\ UNCHANGED raised_by
       \/ /\ Fragile
          /\ pc' = "raised"
          /\ raised_by' = "interrupt"
          /\ UNCHANGED <<running, files, console, persist_error>>
    /\ UNCHANGED <<config, image, teardown, calls, cycle_starts, now, camera, session, cycle, exit_reason, cycle_fault,
                   cycles_started, stop_signal, expired_in_cycle, ext_cleanups>>

\* start_continuous_detection is about to be called again on the detector,
\* the previous call having returned; the history of the previous session is
\* put aside
StartAgain ==
    /\ pc = "returned"
    /\ scene = "restart"
    /\ session_no < MaxSessions
    /\ pc' = "idle"
    /\ exit_reason' = "none"
    /\ cycle_fault' = "none"
    /\ cycles_started' = 0
    /\ stop_signal' = NoSignal
    /\ expired_in_cycle' = 0
    /\ UNCHANGED <<config, image, teardown, calls, cycle_starts, now, camera, running, session,
                   cycle, outputs, persist_error, raised_by, ext_cleanups>>

----------------------------------------------------------------------------
\* main (lines 424-446)

\* the finally block of main after the session returned or raised (lines
\* 441-446): cleanup is called, and whatever it raises is swallowed by the
\* bare except
MainCleanup ==
    /\ pc \in {"returned", "raised"}
    /\ Cleanup("closing", "done")
    /\ UNCHANGED <<config, image, calls, cycle_starts, now, session, cycle, outputs, history>>

\* lines 388-391 of a call of cleanup made in the main thread
MainRelease ==
    /\ pc = "closing"
    /\ pc' = "done"
    /\ \E outcome \in CloseOutcomes("main") :
          /\ camera' = Released(outcome)
          /\ cleanup_raised' = (cleanup_raised \/ Interrupted(outcome))
    /\ UNCHANGED <<config, image, calls, cycle_starts, now, running, session, cycle, outputs, history,
                   cleanup_calls, ext_pc>>

\* cleanup called once more on the detector main has already cleaned up
CleanupAgain ==
    /\ pc = "done"
    /\ ~Disturbed
    /\ cleanup_calls < MaxCleanups
    /\ Cleanup("closing", "done")
    /\ UNCHANGED <<config, image, calls, cycle_starts, now, session, cycle, outputs, history>>

\* the finally block of main when the constructor raised: `detector` is
\* unbound, the NameError is swallowed
MainCleanupUnbound ==
    /\ pc \in {"load_failed", "setup_failed", "setup_interrupted"}
    /\ pc' = "unbound_done"
    /\ UNCHANGED <<config, image, teardown, calls, cycle_starts, now, camera, running, session, cycle, outputs, history>>

Next ==
    \/ LoadModelFails
    \/ ConstructWithoutDriver
    \/ CameraCreate
    \/ CameraStart
    \/ SetupInterrupted
    \/ ConstructWithCamera
    \/ WarmUpInterrupted
    \/ SetupCameraFails
    \/ StartSession
    \/ StartInterrupted
    \/ LoopTop
    \/ Capture
    \/ Preprocess
    \/ Inference
    \/ AppendResult
    \/ CountResult
    \/ PrintProgress
    \/ PrintFault
    \/ Sleep
    \/ Interrupt
    \/ ExternalCleanup
    \/ ExternalStop
    \/ ExternalRelease
    \/ MainRelease
    \/ Finally
    \/ StartAgain
    \/ MainCleanup
    \/ CleanupAgain
    \/ MainCleanupUnbound

Spec == Init /\ [][Next]_vars

----------------------------------------------------------------------------
\* Properties

\* the keys a result carries only when its cycle completed without error
\* the files that hold a whole JSON document, in the order they were written
Readable(f) == "detection_summary" \in DOMAIN f
SessionFiles == SelectSeq(files, Readable)
\* the console summaries that were printed to their last line
Complete(summary) == DOMAIN summary = {SummaryLines[i] : i \in 1 .. Len(SummaryLines)}
Summaries == SelectSeq(console, Complete)

TimingKeys == {"capture_time_ms", "preprocess_time_ms", "inference_time_ms", "total_time_ms"}

IsErrorResult(r) == "error" \in DOMAIN r

\* a primary detection is present: the key exists and its value is not None
HasPrimary(r) == "primary_detection" \in DOMAIN r /\ r.primary_detection # <<>>

\* the cycle in hand completed without error: its confidence vector and its
\* result are both at hand
CycleCompleted == output_data # <<>> /\ result # <<>>

\* C1: a cycle that completes without error reports detected = true exactly
\* when some confidence (hence the maximum) is strictly greater than the
\* threshold; a maximum equal to the threshold gives detected = false.
C1_DetectedIffMaxAboveThreshold ==
    CycleCompleted =>
        /\ ~IsErrorResult(result[1])
        /\ result[1].detected
             <=> (\E c \in Classes : output_data[1][c] > confidence_threshold)
        /\ (/\ \A c \in Classes : output_data[1][c] <= confidence_threshold
            /\ \E c \in Classes : output_data[1][c] = confidence_threshold)
             => ~result[1].detected

\* C1 witness: a completed cycle whose maximum confidence equals the threshold
C1_Witness ==
    /\ CycleCompleted
    /\ pc = "append"
    /\ \A c \in Classes : output_data[1][c] <= confidence_threshold
    /\ \E c \in Classes : output_data[1][c] = confidence_threshold
    /\ ~result[1].detected

\* top_predictions of r obeys the contract under threshold thr
TopPredictionsOk(r, thr) ==
    LET tp == r.top_predictions IN
    /\ Len(tp) <= 3
    /\ \A i \in 1 .. Len(tp) : tp[i].confidence > thr
    /\ \A i \in 1 .. Len(tp) : \A j \in 1 .. Len(tp) :
          i < j => tp[i].confidence >= tp[j].confidence

\* C2: in every result produced by a completed cycle, top_predictions has at
\* most 3 entries, is ordered by non-increasing confidence, every entry is
\* strictly above the threshold, and it is empty when no confidence exceeds
\* the threshold.
C2_TopPredictionsBoundedSortedAboveThreshold ==
    /\ \A i \in 1 .. Len(results) :
          "top_predictions" \in DOMAIN results[i]
             => TopPredictionsOk(results[i], confidence_threshold)
    /\ CycleCompleted =>
          /\ TopPredictionsOk(result[1], confidence_threshold)
          /\ \A i \in 1 .. Len(result[1].top_predictions) :
                LET e == result[1].top_predictions[i] IN
                e.class_id \in Classes /\ e.confidence = output_data[1][e.class_id]
          /\ (\A c \in Classes : output_data[1][c] <= confidence_threshold)
                => result[1].top_predictions = <<>>

\* C2 witness: a recorded result with 3 top predictions of different confidence
C2_Witness ==
    /\ Len(results) >= 1
    /\ "top_predictions" \in DOMAIN results[1]
    /\ Len(results[1].top_predictions) = 3
    /\ results[1].top_predictions[1].confidence > results[1].top_predictions[3].confidence

\* C3: in every recorded result a primary detection is present exactly when
\* detected is true, and its label is LABELS[class_id]; for the cycle in hand
\* its class_id is the (first) index of the maximum confidence and its
\* confidence is that maximum.
C3_PrimaryIffDetected ==
    /\ \A i \in 1 .. Len(results) :
          LET r == results[i] IN
          /\ HasPrimary(r) <=> r.detected
          /\ HasPrimary(r) =>
                r.primary_detection[1].label = LABELS[r.primary_detection[1].class_id + 1]
    /\ CycleCompleted =>
          LET r == result[1]
              conf == output_data[1] IN
          /\ HasPrimary(r) <=> r.detected
          /\ HasPrimary(r) =>
                LET p == r.primary_detection[1] IN
                /\ p.class_id \in Classes
                /\ p.confidence = conf[p.class_id]
                /\ \A c \in Classes : conf[c] <= p.confidence
                /\ \A c \in Classes : c < p.class_id => conf[c] < p.confidence
                /\ p.label = LABELS[p.class_id + 1]

\* C3 witness: a recorded detection whose maximum is attained by two classes,
\* the primary detection naming the lower one
C3_Witness ==
    /\ CycleCompleted
    /\ pc = "count"
    /\ results[Len(results)] = result[1]
    /\ result[1].detected
    /\ HasPrimary(result[1])
    /\ \E c \in Classes :
          /\ c > result[1].primary_detection[1].class_id
          /\ output_data[1][c] = result[1].primary_detection[1].confidence

\* C4: a failure of capture, preprocessing or inference does not leave the
\* loop: the cycle yields a result with detected = false, an error and no
\* stage timings, and unless an interrupt cuts the loop first that result is
\* the one appended to the session for that cycle.
C4_StageFaultYieldsRecordedError ==
    cycle_fault # "none" =>
        /\ result # <<>>
        /\ IsErrorResult(result[1])
        /\ ~result[1].detected
        /\ DOMAIN result[1] \cap TimingKeys = {}
        /\ (pc # "append" /\ exit_reason # "interrupt") =>
              /\ Len(results) = cycles_started
              /\ results[Len(results)] = result[1]

\* C4 witness: a failed cycle was recorded and a later cycle ran after it
C4_Witness ==
    /\ Len(results) >= 2
    /\ IsErrorResult(results[1])
    /\ ~results[1].detected
    /\ ~IsErrorResult(results[2])

\* the camera could not be opened: no driver, or _setup_camera raised
NoDriver == ~PICAMERA_AVAILABLE /\ pc \notin {"new", "load_failed", "unbound_done"}
SessionOver == pc \in {"returned", "raised", "closing", "done"}

\* C5 as stated: when the camera cannot be opened the detector is still
\* constructed and a session on it records camera-error cycles.
C5_Original ==
    /\ pc # "setup_failed"
    /\ (NoDriver /\ SessionOver) => Len(results) >= 1

\* C5 amended: without the picamera2 driver the detector is constructed, but a
\* session started on it never runs: the call returns at once (or is left by
\* a KeyboardInterrupt that arrives in lines 269-270), records no cycle,
\* persists nothing and prints no summary. With the driver present, an
\* Exception raised while the camera is opened is re-raised by the
\* constructor with the camera set to None, and no session runs; nor does one
\* run when a KeyboardInterrupt ends the constructor, whatever it leaves of
\* the camera.
C5_NoCameraSessionReturnsAtOnce ==
    /\ NoDriver =>
          /\ camera = "None"
          /\ ~running
          /\ pc \in {"idle", "returned", "raised", "done"}
          /\ cycles_started = 0
          /\ results = <<>>
          /\ files = <<>>
          /\ console = <<>>
          /\ SessionOver => exit_reason \in {"no_camera", "start_interrupted"}
          /\ pc = "raised" => raised_by = "interrupt"
    /\ pc = "setup_failed" => (PICAMERA_AVAILABLE /\ camera = "None")
    /\ pc \in {"setup_failed", "setup_interrupted"} =>
          /\ session_no = 0
          /\ cycles_started = 0
          /\ results = <<>>

\* C5 witness: a session started on a detector built without the driver has
\* returned
C5_Witness == NoDriver /\ pc = "returned" /\ exit_reason = "no_camera"

\* no recorded cycle failed and nothing stopped the session but its duration
UndisturbedRun ==
    /\ exit_reason = "duration"
    /\ ext_cleanups = 0
    /\ \A i \in 1 .. Len(results) : ~IsErrorResult(results[i])

\* the 3 s / 1 s scenario has run to its end
ScenarioOver ==
    /\ duration = <<3>>
    /\ detection_interval = 1
    /\ pc = "returned"
    /\ UndisturbedRun

\* C6 as stated: duration 3 s, interval 1 s, camera always succeeding, no
\* cancellation: exactly 3 cycles are recorded.
C6_Original == ScenarioOver => Len(results) = 3

\* C6 amended: such a session records at most 3 cycles, and exactly 3 if and
\* only if the first two cycles together took less than one second; the time
\* spent inside the cycles counts against the duration.
C6_AtMostThreeCycles ==
    ScenarioOver =>
        /\ Len(results) >= 1
        /\ Len(results) <= 3
        /\ Len(results) = 3 <=>
              /\ Len(results) >= 2
              /\ results[1].total_time_ms + results[2].total_time_ms < MsPerTick

\* C6 witness: the scenario ends with only 2 cycles recorded
C6_Witness == ScenarioOver /\ Len(results) = 2

\* C7: once a stop signal (interrupt, or cleanup clearing the running flag)
\* has arrived during the interval wait, no further cycle is started: the
\* main thread is waiting, at the loop top, or finalizing.
C7_StopDuringWaitStartsNoCycle ==
    stop_signal.at = "wait" =>
        /\ cycles_started = stop_signal.started
        /\ pc \in {"sleep", "loop_top", "finally", "returned", "raised", "closing", "done"}
        /\ stop_signal.kind = "cleanup" => ~running

\* C7 witness: cleanup cleared the flag during the wait and the session has
\* finalized after at least one cycle
C7_Witness ==
    /\ stop_signal.kind = "cleanup"
    /\ stop_signal.at = "wait"
    /\ exit_reason = "stopped"
    /\ pc = "returned"
    /\ Len(results) >= 1

\* C8: a session that ends by duration expiry has recorded every cycle it
\* started, the one during which the duration was reached included.
C8_DurationNeverCutsCycle ==
    exit_reason = "duration" =>
        /\ Len(results) = cycles_started
        /\ expired_in_cycle > 0 => Len(results) >= expired_in_cycle

\* C8 witness: the duration was reached while a cycle was in progress, and the
\* session finalized with that cycle recorded
C8_Witness ==
    /\ exit_reason = "duration"
    /\ expired_in_cycle > 0
    /\ Len(results) = expired_in_cycle
    /\ pc = "returned"

\* C9: whenever a duration is given (0 included), no cycle is started at a
\* loop iteration where the elapsed time has reached the duration.
C9_NoCycleOnceDurationReached ==
    (pc = "capture" /\ duration # <<>>) => (now - start_time) < duration[1]

\* C10: a failure while persisting the session (creating the directory or
\* writing the file) is not raised out of start_continuous_detection, and the
\* console summary is still reported.
C10_PersistFailureNotRaised ==
    persist_error \in {"makedirs", "write"} =>
        /\ pc # "raised"
        /\ pc \in {"returned", "closing", "done"} => console # <<>>

\* the persisted summary sm states the success rate of its own counts,
\* correctly rounded to hundredths of a percent
RateOk(sm) ==
    LET t == sm.total_detections
        k == sm.successful_detections
        rate == sm.success_rate
    IN /\ rate >= 0
       /\ rate <= PercentScale * HundredthsPerUnit
       /\ t = 0 => rate = 0
       /\ t > 0 =>
             /\ 2 * (rate * t - k * PercentScale * HundredthsPerUnit) <= t
             /\ 2 * (k * PercentScale * HundredthsPerUnit - rate * t) <= t

\* C11: the success_rate of every persisted summary is successful / total *
\* 100 rounded to 2 decimals and lies in 0..100; with a count of 0 the rate
\* reported is 0 (the console summary of a session without cycles), no
\* division by zero being attempted.
C11_SuccessRateRounded ==
    /\ \A i \in 1 .. Len(SessionFiles) :
          /\ RateOk(SessionFiles[i].detection_summary)
          /\ SessionFiles[i].detection_summary.total_detections = Len(SessionFiles[i].detections)
          /\ SessionFiles[i].detection_summary.successful_detections
                = Cardinality({j \in 1 .. Len(SessionFiles[i].detections) :
                                   SessionFiles[i].detections[j].detected})
    /\ \A i \in 1 .. Len(Summaries) :
          /\ Summaries[i].total_detections = 0 => Summaries[i].success_rate = 0
          /\ Summaries[i].success_rate >= 0

\* C11 witness: a persisted summary of 3 cycles, 2 of them successful, whose
\* rate 66.666... is rounded up to 66.67
C11_Witness ==
    /\ Len(SessionFiles) = 1
    /\ SessionFiles[1].detection_summary.total_detections = 3
    /\ SessionFiles[1].detection_summary.successful_detections = 2
    /\ SessionFiles[1].detection_summary.success_rate = 6667

\* a call of cleanup begins
CleanupBegins == cleanup_calls' = cleanup_calls + 1

\* C12: cleanup is idempotent: a call made once an earlier call is over leaves
\* the running flag and the camera as that call left them, and a call on a
\* detector whose camera failed to open leaves it without camera and with the
\* flag false. (No Exception leaves a call: line 390 catches them all.)
\* Violated: a call during which stop() raises leaves the camera open (C13),
\* so that the next call changes the detector: it stops and closes the camera.
C12_CleanupIdempotent ==
    [][/\ (CleanupBegins /\ cleanup_calls >= 1 /\ ext_pc \notin {"stop", "close"})
            => (camera' = camera /\ running' = running)
       /\ (pc = "closing" /\ pc' = "done" /\ cleanup_calls >= 2 /\ ext_cleanups = 0)
            => (camera' = camera /\ running' = running)
       /\ (CleanupBegins /\ camera = "None")
            => (camera' = "None" /\ ~running')]_vars

\* C13: a started session has released the camera once main is done,
\* whichever way the loop was left and also when persisting raised; as long as
\* main is not done the release is still to come and nothing blocks it.
\* Violated: when stop() raises or is interrupted, close() is never called.
C13_CameraReleasedWhenDone ==
    /\ (pc = "done" /\ session_no >= 1) =>
          /\ camera # "started"
          /\ ~running
          /\ PICAMERA_AVAILABLE => camera = "closed"
    /\ pc \in {"returned", "raised"} => ENABLED MainCleanup

\* the keys of the result of a completed cycle, and of a failed one
SuccessKeys ==
    {"timestamp", "detected", "camera_resolution", "primary_detection", "top_predictions",
     "model_info"} \cup TimingKeys
ErrorKeys == {"timestamp", "error", "detected"}

\* C14 as stated: all recorded per-cycle objects have one field set, which
\* includes primary_detection and top_predictions.
C14_Original ==
    \A i \in 1 .. Len(results) :
        /\ {"primary_detection", "top_predictions"} \subseteq DOMAIN results[i]
        /\ \A j \in 1 .. Len(results) : DOMAIN results[i] = DOMAIN results[j]

\* C14 (amended): every recorded per-cycle object carries timestamp and
\* detected. The object of a completed cycle has the full field set, without
\* an error key, and its primary_detection is null exactly when nothing was
\* detected; the object of a failed cycle carries timestamp, error and
\* detected = false only.
C14_FieldSetsByOutcome ==
    \A i \in 1 .. Len(results) :
        LET r == results[i] IN
        /\ {"timestamp", "detected"} \subseteq DOMAIN r
        /\ DOMAIN r \in {SuccessKeys, ErrorKeys}
        /\ DOMAIN r = SuccessKeys => (r.primary_detection = <<>> <=> ~r.detected)
        /\ DOMAIN r = ErrorKeys => ~r.detected

\* C14 witness: a session holding the object of a failed cycle next to that
\* of a completed cycle with a detection
C14_Witness ==
    /\ Len(results) = 2
    /\ DOMAIN results[1] = ErrorKeys
    /\ DOMAIN results[2] = SuccessKeys
    /\ results[2].detected

\* the scenario: threshold 0.3, maximum 0.92 at class index 2, every other
\* confidence below 0.3, and the cycle completed
StopScenario ==
    /\ CycleCompleted
    /\ confidence_threshold = 30
    /\ output_data[1][2] = 92
    /\ \A c \in Classes \ {2} : output_data[1][c] < 30

\* C15 as stated: in the scenario the result has detected = true and the
\* primary detection is class 2, labelled "Stop", with confidence 0.92.
C15_Original ==
    StopScenario =>
        /\ result[1].detected
        /\ result[1].primary_detection # <<>>
        /\ result[1].primary_detection[1].class_id = 2
        /\ result[1].primary_detection[1].label = "Stop"
        /\ result[1].primary_detection[1].confidence = 92

\* C15 (amended): in the scenario the result has detected = true and the
\* primary detection is class 2 with confidence 0.92, labelled
\* "Speed limit (50km/h)", the entry of LABELS at index 2; "Stop" is the
\* label of class index 14.
C15_ScenarioYieldsClassTwo ==
    /\ StopScenario =>
          /\ result[1].detected
          /\ result[1].primary_detection # <<>>
          /\ result[1].primary_detection[1].class_id = 2
          /\ result[1].primary_detection[1].label = "Speed limit (50km/h)"
          /\ result[1].primary_detection[1].confidence = 92
          /\ result[1].top_predictions = result[1].primary_detection
    /\ Label(14) = "Stop"

\* C15 witness: the scenario's cycle has completed and its result is at hand
C15_Witness ==
    /\ StopScenario
    /\ pc = "append"
    /\ result[1].primary_detection[1].class_id = 2

\* C16: among classes of equal confidence the top-3 selection takes the
\* lower class index before the higher one, and in top_predictions the lower
\* index comes first.
C16_TiesLowestIndexFirst ==
    CycleCompleted =>
        LET tp == result[1].top_predictions
            conf == output_data[1]
        IN /\ \A i \in 1 .. Len(tp) : \A j \in 1 .. Len(tp) :
                 (i < j /\ tp[i].confidence = tp[j].confidence)
                    => tp[i].class_id < tp[j].class_id
           /\ \A i \in 1 .. Len(tp) : \A c \in Classes :
                 (c < tp[i].class_id /\ conf[c] = tp[i].confidence)
                    => \E k \in 1 .. Len(tp) : tp[k].class_id = c

\* C17 as stated: the starts of two consecutive cycles of a session lie
\* detection_interval apart.
C17_Original ==
    \A i \in 1 .. (Len(cycle_starts) - 1) :
        cycle_starts[i + 1] - cycle_starts[i] = detection_interval

\* C17 (amended): the wait of detection_interval lies between the end of a
\* cycle and the start of the next one, so two consecutive starts are
\* separated by detection_interval plus the time the earlier cycle took: at
\* least detection_interval, and more whenever the cycle takes time.
C17_IntervalFollowsCycle ==
    \A i \in 1 .. (Len(cycle_starts) - 1) :
        /\ i <= Len(results)
        /\ cycle_starts[i + 1] = results[i].timestamp + detection_interval
        /\ cycle_starts[i + 1] - cycle_starts[i] >= detection_interval
        /\ "total_time_ms" \in DOMAIN results[i] =>
              (cycle_starts[i + 1] - cycle_starts[i]) * MsPerTick
                 = detection_interval * MsPerTick + results[i].total_time_ms

\* C17 witness: the first cycle took a second, and the second cycle started
\* two seconds after the first with an interval of one second
C17_Witness ==
    /\ Len(cycle_starts) >= 2
    /\ detection_interval = 1
    /\ "total_time_ms" \in DOMAIN results[1]
    /\ results[1].total_time_ms = MsPerTick
    /\ cycle_starts[2] - cycle_starts[1] = 2

\* the first session of the detector entered the loop and is over
FirstSessionOver ==
    /\ SessionOver
    /\ session_no = 1
    /\ exit_reason \notin {"none", "no_camera", "start_interrupted"}

\* C18: a session that is over has written its session file exactly once if
\* persistence is enabled, whatever the number of cycles it recorded, and no
\* file if persistence is disabled; no file is written before the session
\* ends.
\* Violated: a session that recorded no cycle writes no file, and os.makedirs
\* raising (C10) ends the call before the file is written.
C18_FileWrittenOnceAtEnd ==
    /\ pc \in LoopPcs \cup {"finally"} => Len(files) <= session_no - 1
    /\ FirstSessionOver =>
          /\ Len(files) <= 1
          /\ Len(SessionFiles) = (IF save_results THEN 1 ELSE 0)

\* C19: a call of start_continuous_detection on a detector whose previous
\* session is over begins a fresh session: its result list and counter start
\* empty and hold its own cycles only, and what the previous session
\* recorded and wrote stays as it was. Stated of the second and later calls,
\* from the moment the call is made.
C19_RestartIsFresh ==
    (session_no >= 2 /\ camera # "None" /\ pc # "idle") =>
        /\ (pc = "loop_top" /\ cycles_started = 0) =>
              /\ results = <<>>
              /\ detection_count = 0
              /\ start_time = now
              /\ running
        /\ Len(results) <= cycles_started
        /\ detection_count <= cycles_started
        /\ \A i \in 1 .. Len(results) : results[i].timestamp >= start_time
        /\ (save_results /\ prev_results # <<>>) =>
              /\ Len(files) >= session_no - 1
              /\ files[session_no - 1].detections = prev_results
              /\ files[session_no - 1].detection_summary.total_detections = Len(prev_results)

\* C19 witness: the second session on the detector is over with one cycle of
\* its own, the first session's cycle and file being as they were
C19_Witness ==
    /\ session_no = 2
    /\ pc = "returned"
    /\ Len(prev_results) = 1
    /\ Len(results) = 1
    /\ Len(files) = 2
    /\ files[1].detections = prev_results
    /\ files[2].detections = results

\* the session entered the loop and has left it
LoopLeft ==
    /\ pc \in {"finally", "returned", "raised", "closing", "done"}
    /\ exit_reason \notin {"no_camera", "start_interrupted"}

\* C20 as stated: the loop is left only because the duration expired or the
\* session was cancelled (interrupt, or the running flag cleared).
C20_Original ==
    LoopLeft => exit_reason \in {"duration", "interrupt", "stopped"}

\* C20 (amended): the loop is left because the duration expired, the session
\* was cancelled, or a fault was raised in an iteration outside the detection
\* cycle (progress output): that fault is caught by the loop's own handler and
\* ends the session through its finally block, every cycle run so far being
\* recorded and counted. A fault raised inside the cycle never ends the
\* session: it becomes the cycle's result and the loop goes on.
C20_OnlyLoopLevelFaultEndsSession ==
    /\ LoopLeft => exit_reason \in {"duration", "interrupt", "stopped", "fault"}
    /\ exit_reason = "fault" =>
          /\ LoopLeft
          /\ Len(results) >= 1
          /\ Len(results) = cycles_started
          /\ detection_count = Len(results)
    /\ (pc \in LoopPcs /\ cycle_fault # "none") =>
          /\ exit_reason = "none"
          /\ result # <<>> /\ IsErrorResult(result[1])

\* C20 witness: the first cycle failed and the session went on; the progress
\* output of the second cycle raised and the session ended, both cycles
\* recorded
C20_Witness ==
    /\ pc = "returned"
    /\ exit_reason = "fault"
    /\ Len(results) = 2
    /\ IsErrorResult(results[1])
    /\ ~IsErrorResult(results[2])

\* the sum of f over the finite set S
RECURSIVE SumOver(_, _)
SumOver(S, f) ==
    IF S = {} THEN 0
    ELSE LET x == CHOOSE y \in S : TRUE IN f[x] + SumOver(S \ {x}, f)

\* avg (in hundredths of a millisecond) is the mean, rounded to the nearest
\* hundredth, of the timing `key` over the entries of ds that carry it, and 0
\* when none carries it
IsMeanOfCarriers(avg, ds, key) ==
    LET carriers == {i \in 1 .. Len(ds) : key \in DOMAIN ds[i]}
        n == Cardinality(carriers)
        total == SumOver(carriers, [i \in carriers |-> ds[i][key]])
        diff == avg * n - total * HundredthsPerUnit
    IN IF n = 0 THEN avg = 0
       ELSE 2 * diff <= n /\ -2 * diff <= n

\* C21: in every persisted summary total_detections is the number of cycles
\* recorded, failed_detections = total_detections - successful_detections and
\* counts the error cycles and the cycles without a detection alike, and each
\* average stage time is the mean over the cycles that carry that timing, 0
\* when none does.
C21_SummaryCountsAndAverages ==
    \A k \in 1 .. Len(SessionFiles) :
        LET sm == SessionFiles[k].detection_summary
            ds == SessionFiles[k].detections
        IN /\ sm.total_detections = Len(ds)
           /\ sm.failed_detections = sm.total_detections - sm.successful_detections
           /\ sm.failed_detections
                 = Cardinality({i \in 1 .. Len(ds) : IsErrorResult(ds[i]) \/ ~ds[i].detected})
           /\ IsMeanOfCarriers(sm.average_capture_time_ms, ds, "capture_time_ms")
           /\ IsMeanOfCarriers(sm.average_inference_time_ms, ds, "inference_time_ms")
           /\ IsMeanOfCarriers(sm.average_total_time_ms, ds, "total_time_ms")

\* C21 witness: a persisted session of two cycles, the first failed and the
\* second with a detection that took a second: one cycle counts as failed and
\* the average total time is the mean over the one cycle with timings
C21_Witness ==
    /\ Len(SessionFiles) = 1
    /\ Len(SessionFiles[1].detections) = 2
    /\ IsErrorResult(SessionFiles[1].detections[1])
    /\ ~IsErrorResult(SessionFiles[1].detections[2])
    /\ SessionFiles[1].detections[2].detected
    /\ SessionFiles[1].detections[2].total_time_ms = MsPerTick
    /\ SessionFiles[1].detection_summary.failed_detections = 1
    /\ SessionFiles[1].detection_summary.average_total_time_ms = MsPerTick * HundredthsPerUnit

\* C21, a cycle without a detection: it counts as failed and its timing
\* enters the averages
C21_WitnessNoDetection ==
    /\ Len(SessionFiles) = 1
    /\ Len(SessionFiles[1].detections) = 2
    /\ ~IsErrorResult(SessionFiles[1].detections[1])
    /\ ~SessionFiles[1].detections[1].detected
    /\ SessionFiles[1].detections[1].total_time_ms = 0
    /\ SessionFiles[1].detections[2].detected
    /\ SessionFiles[1].detections[2].total_time_ms = MsPerTick
    /\ SessionFiles[1].detection_summary.failed_detections = 1
    /\ 2 * SessionFiles[1].detection_summary.average_total_time_ms = MsPerTick * HundredthsPerUnit

\* C21, the other case: every recorded cycle failed, so no cycle carries a
\* timing and the averages are 0
C21_WitnessNoTimings ==
    /\ Len(SessionFiles) = 1
    /\ Len(SessionFiles[1].detections) = 2
    /\ \A i \in 1 .. 2 : IsErrorResult(SessionFiles[1].detections[i])
    /\ SessionFiles[1].detection_summary.average_total_time_ms = 0
    /\ SessionFiles[1].detection_summary.failed_detections = 2

\* the frame in hand has just been cropped
Cropped == pc = "inference" /\ frame # <<>> /\ crop_box # <<>>

Min(a, b) == IF a <= b THEN a ELSE b

\* the crop box is a square of side min(w, h) inside the frame, spanning the
\* whole shorter axis
SquareInsideFrame ==
    LET w == frame[1]
        h == frame[2]
    IN /\ crop_box[3] - crop_box[1] = Min(w, h)
       /\ crop_box[4] - crop_box[2] = Min(w, h)
       /\ 0 <= crop_box[1] /\ crop_box[3] <= w
       /\ 0 <= crop_box[2] /\ crop_box[4] <= h
       /\ w = h => crop_box = <<0, 0, w, h>>

\* the margins discarded before and after the box, along x and along y
MarginsX == <<crop_box[1], frame[1] - crop_box[3]>>
MarginsY == <<crop_box[2], frame[2] - crop_box[4]>>

\* C22 as stated: the crop is a square of side min(w, h) inside the frame
\* with equal margins discarded on the two sides of the longer axis, and
\* nothing is cropped when w = h.
C22_Original ==
    Cropped =>
        /\ SquareInsideFrame
        /\ MarginsX[1] = MarginsX[2]
        /\ MarginsY[1] = MarginsY[2]

\* C22 (amended): the crop is a square of side min(w, h) inside the frame;
\* the margins discarded on the two sides of the longer axis are equal when
\* |w - h| is even and differ by one pixel when it is odd, the left (or top)
\* margin being the smaller; when w = h nothing is cropped.
C22_CenteredWithinOnePixel ==
    Cropped =>
        /\ SquareInsideFrame
        /\ MarginsX[2] - MarginsX[1] = (frame[1] - Min(frame[1], frame[2])) % 2
        /\ MarginsY[2] - MarginsY[1] = (frame[2] - Min(frame[1], frame[2])) % 2

\* C22 witness: a frame 5 wide and 2 high has been cropped to the square
\* between x = 1 and x = 3, one pixel discarded on the left and two on the
\* right
C22_Witness ==
    /\ Cropped
    /\ frame = <<5, 2>>
    /\ crop_box = <<1, 0, 3, 2>>

\* the first stop signal of the session arrived while a cycle was capturing,
\* preprocessing or inferring
InterruptedInCycle == stop_signal.kind = "interrupt" /\ stop_signal.at = "cycle"
FlagClearedInCycle == stop_signal.kind = "cleanup" /\ stop_signal.at = "cycle"

\* C23 as stated: an operator interrupt that arrives during a cycle lets the
\* cycle complete, and its result is in the session when the session
\* finalizes.
C23_Original ==
    (InterruptedInCycle /\ LoopLeft) => Len(results) >= stop_signal.started

\* C23 (amended): an operator interrupt that arrives during a cycle ends the
\* loop at once: the cycle in progress leaves no result, no further cycle
\* starts, and the session finalizes with the results of the cycles before
\* it. A cancellation by the running flag that arrives during a cycle does
\* not cut the cycle: a session that ends by the flag has recorded every
\* cycle it started, that one included.
C23_InterruptDropsCycleInProgress ==
    /\ InterruptedInCycle =>
          /\ LoopLeft
          /\ exit_reason = "interrupt"
          /\ cycles_started = stop_signal.started
          /\ Len(results) = stop_signal.started - 1
          /\ \A k \in 1 .. Len(SessionFiles) : Len(SessionFiles[k].detections) = stop_signal.started - 1
    /\ (FlagClearedInCycle /\ exit_reason = "stopped") =>
          /\ Len(results) = cycles_started
          /\ Len(results) >= stop_signal.started

\* C23 witness: the interrupt arrived during the second cycle, and the
\* session has finalized holding the first cycle only
C23_Witness ==
    /\ InterruptedInCycle
    /\ stop_signal.started = 2
    /\ Len(results) = 1
    /\ pc = "returned"

\* C23, the flag: cleanup cleared the flag during the second cycle, and the
\* session has finalized holding both cycles
C23_WitnessFlag ==
    /\ FlagClearedInCycle
    /\ stop_signal.started = 2
    /\ exit_reason = "stopped"
    /\ Len(results) = 2
    /\ pc = "returned"

\* C24 as stated: the flag is false before start, true for as long as the
\* loop runs (so that no cycle starts or runs while it is false), and false
\* once start_continuous_detection has returned.
C24_Original ==
    /\ session_no = 0 => ~running
    /\ pc \in LoopPcs => running
    /\ pc = "returned" => ~running

\* C24 (amended): the flag is false before start, set at start, and false
\* once start_continuous_detection has returned, on every exit path of the
\* loop. While the loop runs the flag is true unless cleanup cleared it from
\* outside: the cycle in progress then goes on with the flag false, and the
\* loop ends at its next loop-top. No cycle is started while the flag is
\* false.
C24_FlagFramesTheLoop ==
    /\ [](session_no = 0 => ~running)
    /\ [](pc \in LoopPcs \cup {"finally"} => (running \/ ext_cleanups >= 1))
    /\ [](pc = "returned" => ~running)
    /\ [][(pc = "idle" /\ pc' = "loop_top") => running']_vars
    /\ [][cycles_started' = cycles_started + 1 => running]_vars
    /\ [][(pc = "loop_top" /\ ~running) => pc' \in {"loop_top", "finally"}]_vars

\* C24 witness: cleanup cleared the flag during the second cycle; the cycle
\* in progress is at its inference with the flag false
C24_Witness ==
    /\ pc = "inference"
    /\ ~running
    /\ cycles_started = 2
    /\ ext_cleanups = 1

\* C24, the end: a session that was interrupted is over with the flag false
C24_WitnessInterrupted ==
    /\ pc = "returned"
    /\ exit_reason = "interrupt"
    /\ ext_cleanups = 0
    /\ ~running

\* C25: whenever the result of a completed cycle has detected = true,
\* top_predictions is non-empty and its first entry has the class_id and the
\* confidence of primary_detection, also when several classes attain the
\* maximum.
C25_FirstTopIsPrimary ==
    (CycleCompleted /\ result[1].detected) =>
        /\ result[1].primary_detection # <<>>
        /\ result[1].top_predictions # <<>>
        /\ result[1].top_predictions[1].confidence
              = result[1].primary_detection[1].confidence
        /\ result[1].top_predictions[1].class_id
              = result[1].primary_detection[1].class_id

\* C26: at every loop-top and from finalization on, the cycle counter equals
\* the length of the result list, which holds one result per cycle run, in
\* the order the cycles ran; and the count of the console summary equals
\* total_detections of the persisted summary.
C26_CounterMatchesResults ==
    /\ (pc \in {"loop_top", "finally"} \/ SessionOver) =>
          (exit_reason # "no_camera" => detection_count = Len(results))
    /\ \A i \in 1 .. Len(results) : \A j \in 1 .. Len(results) :
          i < j => results[i].timestamp <= results[j].timestamp
    /\ (pc = "returned" /\ console # <<>> /\ Len(SessionFiles) = session_no) =>
          console[Len(console)].total_detections
             = SessionFiles[Len(SessionFiles)].detection_summary.total_detections
====
